---- MODULE Spec2Model ----
(***************************************************************************)
(* FlexiBlur: the ROI blur transform (apply_blur), the per-file            *)
(* transformers (process_image, process_video) and the parallel batch      *)
(* dispatcher (process_media_in_parallel) of src/FlexiBlur.py, with the    *)
(* settings dialog of src/gui.py that feeds them.                          *)
(*                                                                         *)
(* Specifications:                                                         *)
(*   BlurSpec  one call of apply_blur on inputs drawn from bounded sets    *)
(*             (optionally after the GUI saved the custom settings);       *)
(*   Spec      one run of process_media_in_parallel over a batch, with the *)
(*             ThreadPoolExecutor workers and the as_completed collector,  *)
(*             followed by the save step of the GUI;                       *)
(*   TransformSpec  process_image or process_video called directly on one  *)
(*             path, once and then again with the same arguments.          *)
(***************************************************************************)
EXTENDS Integers, Sequences, FiniteSets, TLC

VARIABLES
    \* ---- arguments shared by apply_blur and the batch ----
    roi,              \* (x, y, w, h) or None
    blur_mode,        \* mode string
    custom_settings,  \* [ksize, sigma, direction, angle]
    \* ---- one apply_blur call (BlurSpec), one transformer call (TransformSpec) ----
    image,            \* the caller's frame buffer (the numpy array handed in)
    image_in,         \* the pixels that buffer held when the call was made
    result,           \* what the call returned
    call_pc,          \* "idle" | "ready" | "returned" | "returned_again"
    \* ---- one batch run (Spec) ----
    media_paths,      \* the batch, a sequence of paths
    start_time,
    end_time,         \* None, or Optional(t)
    max_workers,      \* config["parallel_processing"]["max_workers"]
    fs,               \* the file system: path -> content
    futures,          \* per submitted item: the Future, what its task logged and wrote
    work_queue,       \* executor._work_queue, indices into media_paths
    finished_futures, \* waiter.finished_futures of as_completed
    finished,         \* the futures as_completed found finished when it started
    yielded,          \* the futures as_completed has yielded so far, in order
    completed,        \* the order in which the tasks finished
    output_paths,     \* the list being built and returned
    main_pc,          \* "idle" | "start" | "submit" | "collect" | "done" | "raised"
                      \* | "saved"
    \* ---- the save step of the GUI ----
    output_names      \* the names the user entered, one per loaded path

callVars  == <<image, image_in, result, call_pc>>
argVars   == <<roi, blur_mode, custom_settings>>
batchVars == <<media_paths, start_time, end_time, max_workers, fs, futures,
               work_queue, finished, finished_futures, yielded, completed,
               output_paths, main_pc, output_names>>
vars      == <<roi, blur_mode, custom_settings, image, image_in, result, call_pc,
               media_paths, start_time, end_time, max_workers, fs, futures,
               work_queue, finished, finished_futures, yielded, completed,
               output_paths, main_pc, output_names>>

\* Python's None, for frames, regions, paths and times alike.  A path that is
\* the empty string is falsy in Python exactly as None is.
None == <<>>

\* an optional number (end_time): None, or the number t held as <<t>>
Optional(t) == <<t>>
Some(opt) == opt[1]

---------------------------------------------------------------------------
(* Bounds of the model                                                     *)

\* frames are FrameH x FrameW pixels, 3 channels of 8 bits
FrameH == 2
FrameW == 3
\* largest custom kernel size drawn
MaxKsize == 4
\* largest sigma and largest radial "angle" drawn
MaxSigma == 1
MaxAngle == 1
\* longest batch
MaxItems == 3
\* longest video, in frames (one frame per second)
MaxFrames == 2

---------------------------------------------------------------------------
(* Small helpers                                                           *)

Min(a, b) == IF a < b THEN a ELSE b

RECURSIVE SumFn(_, _, _)
SumFn(f, lo, hi) == IF lo > hi THEN 0 ELSE f[lo] + SumFn(f, lo + 1, hi)

Range(s) == {s[i] : i \in DOMAIN s}

\* an array is a value, not a recipe: the concatenation makes TLC compute the
\* rows and their elements once, instead of recomputing a pixel at each read
Vec(f) == f \o <<>>
Array(f) == Vec([r \in DOMAIN f |-> Vec(f[r])])

---------------------------------------------------------------------------
(* Frames: numpy arrays of shape (height, width, 3), dtype uint8           *)

Height(frame) == Len(frame)
Width(frame)  == Len(frame[1])

\* image[y : y + h, x : x + w].copy()
Crop(frame, x, y, w, h) ==
    Array([r \in 1..h |-> [c \in 1..w |-> frame[y + r][x + c]]])

\* image[y : y + h, x : x + w] = blurred_roi
Paste(frame, x, y, w, h, blurred) ==
    Array([r \in 1..Height(frame) |-> [c \in 1..Width(frame) |->
        IF r > y /\ r <= y + h /\ c > x /\ c <= x + w
        THEN blurred[r - y][c - x]
        ELSE frame[r][c]]])

Plane(frame, ch) ==
    Array([r \in 1..Height(frame) |-> [c \in 1..Width(frame) |-> frame[r][c][ch]]])

Merge(p1, p2, p3) ==
    Array([r \in 1..Len(p1) |-> [c \in 1..Len(p1[1]) |->
        <<p1[r][c], p2[r][c], p3[r][c]>>]])

\* cv2.cvtColor(..., COLOR_BGR2RGB) and COLOR_RGB2BGR: both swap channels 1 and 3
cvtColor(frame) ==
    Array([r \in 1..Height(frame) |-> [c \in 1..Width(frame) |->
        <<frame[r][c][3], frame[r][c][2], frame[r][c][1]>>]])

\* OpenCV's default border, BORDER_REFLECT_101, on 0-based index i of n
Reflect101(i, n) ==
    IF n = 1 THEN 0
    ELSE LET p == 2 * (n - 1)
             m == i % p
         IN IF m < n THEN m ELSE p - m

\* PIL extends the edge pixel
Clamp(i, n) == IF i < 0 THEN 0 ELSE IF i >= n THEN n - 1 ELSE i

\* the taps of a horizontal / vertical window of radius rad around (r, c)
RowTaps(plane, r, c, rad, reflect) ==
    [d \in -rad..rad |->
        plane[r][(IF reflect THEN Reflect101(c - 1 + d, Len(plane[1]))
                  ELSE Clamp(c - 1 + d, Len(plane[1]))) + 1]]

ColTaps(plane, r, c, rad, reflect) ==
    [d \in -rad..rad |->
        plane[(IF reflect THEN Reflect101(r - 1 + d, Len(plane))
               ELSE Clamp(r - 1 + d, Len(plane))) + 1][c]]

\* rounded mean of a window
Mean(taps, rad) == (SumFn(taps, -rad, rad) + rad) \div (2 * rad + 1)

\* saturate_cast<uchar> of the sum of a window (a kernel of ones)
SatSum(taps, rad) == Min(255, SumFn(taps, -rad, rad))

SmoothRows(plane, rad, reflect) ==
    Array([r \in 1..Len(plane) |-> [c \in 1..Len(plane[1]) |->
        Mean(RowTaps(plane, r, c, rad, reflect), rad)]])

SmoothCols(plane, rad, reflect) ==
    Array([r \in 1..Len(plane) |-> [c \in 1..Len(plane[1]) |->
        Mean(ColTaps(plane, r, c, rad, reflect), rad)]])

\* a separable smoothing of radius rad, channel by channel.  The weights of
\* the library's kernels are taken uniform: the pixel arithmetic of cv2 and PIL
\* is outside the repository, what matters here is which pixels are read,
\* which are written, and that a larger kernel gives another result.
Smooth(section, rad, reflect) ==
    LET S(ch) == SmoothCols(SmoothRows(Plane(section, ch), rad, reflect), rad, reflect)
    IN  Merge(S(1), S(2), S(3))

\* cv2.GaussianBlur(src, (ksize, ksize), sigma): the kernel size is derived
\* from sigma when it is not positive, and must then be positive and odd
\* (otherwise cv2.error); a 1x1 kernel copies the source.
GaussKsize(ksize, sigma) ==
    IF ksize <= 0 /\ sigma > 0 THEN 6 * sigma + 1 ELSE ksize

GaussianBlurRaises(ksize, sigma) ==
    LET k == GaussKsize(ksize, sigma) IN ~(k > 0 /\ k % 2 = 1)

GaussianBlur(section, ksize, sigma) ==
    Smooth(section, (GaussKsize(ksize, sigma) - 1) \div 2, TRUE)

\* cv2.filter2D(src, -1, kernel) with the 1x15 or 15x1 kernel of ones
filter2D(section, direction) ==
    LET F(ch) == LET p == Plane(section, ch) IN
            Array([r \in 1..Len(p) |-> [c \in 1..Len(p[1]) |->
                IF direction = "horizontal"
                THEN SatSum(RowTaps(p, r, c, 7, TRUE), 7)
                ELSE SatSum(ColTaps(p, r, c, 7, TRUE), 7)]])
    IN  Merge(F(1), F(2), F(3))

\* Image.filter(ImageFilter.GaussianBlur(radius)): radius 0 copies the image
PILGaussianBlur(section, radius) == Smooth(section, radius, FALSE)

---------------------------------------------------------------------------
(* apply_blur                                                              *)

BlurModes == {"Heavy", "Slight", "Custom", "Motion", "Radial"}

\* RoiInvalid with the right and bottom edges tested by >= instead of >
RoiInvalidAtEdge(x, y, w, h, frame) ==
    \/ x < 0
    \/ y < 0
    \/ w <= 0
    \/ h <= 0
    \/ x + w >= Width(frame)
    \/ y + h >= Height(frame)

\* lines 58-65: the test that rejects a region
RoiInvalid(x, y, w, h, frame) ==
    \/ x < 0
    \/ y < 0
    \/ w <= 0
    \/ h <= 0
    \/ x + w > Width(frame)
    \/ y + h > Height(frame)

\* blurred_roi with an unknown mode falling back to the slight blur
blurred_roi_fallback(roi_section, mode, settings) ==
    CASE mode = "Heavy"  -> GaussianBlur(roi_section, 51, 0)
      [] mode = "Custom" ->
            IF GaussianBlurRaises(settings.ksize, settings.sigma)
            THEN None
            ELSE GaussianBlur(roi_section, settings.ksize, settings.sigma)
      [] mode = "Motion" ->
            IF settings.direction \in {"horizontal", "vertical"}
            THEN filter2D(roi_section, settings.direction)
            ELSE None
      [] mode = "Radial" ->
            cvtColor(PILGaussianBlur(cvtColor(roi_section), settings.angle))
      [] OTHER -> GaussianBlur(roi_section, 15, 0)

\* lines 75-101 and 108-110: the blurred section, or None when the mode is
\* unknown or the filter raised
blurred_roi(roi_section, mode, settings) ==
    CASE mode = "Heavy"  -> GaussianBlur(roi_section, 51, 0)
      [] mode = "Slight" -> GaussianBlur(roi_section, 15, 0)
      [] mode = "Custom" ->
            IF GaussianBlurRaises(settings.ksize, settings.sigma)
            THEN None
            ELSE GaussianBlur(roi_section, settings.ksize, settings.sigma)
      [] mode = "Motion" ->
            \* any other direction leaves `kernel` unbound: UnboundLocalError
            IF settings.direction \in {"horizontal", "vertical"}
            THEN filter2D(roi_section, settings.direction)
            ELSE None
      [] mode = "Radial" ->
            cvtColor(PILGaussianBlur(cvtColor(roi_section), settings.angle))
      [] OTHER -> None

\* apply_blur(image, roi, blur_mode, custom_settings): ret is the value
\* returned, buf the pixels the caller's array holds after the call.
apply_blur(frame, region, mode, settings) ==
    IF frame = None
    THEN [ret |-> None, buf |-> None]
    ELSE IF region # None /\ RoiInvalid(region[1], region[2], region[3], region[4], frame)
    THEN [ret |-> frame, buf |-> frame]
    ELSE LET roi_section ==
                 IF region # None
                 THEN Crop(frame, region[1], region[2], region[3], region[4])
                 ELSE frame
             blurred == blurred_roi(roi_section, mode, settings)
         IN  IF blurred = None
             THEN [ret |-> None, buf |-> frame]
             ELSE IF region # None
             THEN \* line 105 writes into the array it was given
                  LET written == Paste(frame, region[1], region[2], region[3],
                                       region[4], blurred)
                  IN  [ret |-> written, buf |-> written]
             ELSE \* line 107 only rebinds the local name
                  [ret |-> blurred, buf |-> frame]

---------------------------------------------------------------------------
(* The settings dialog of the GUI                                          *)

\* FlexiBlurApp.__init__: the settings a fresh application starts with
DefaultKsize == 25
DefaultSigma == 5
DefaultAngle == 45

DefaultSettings ==
    [ksize |-> DefaultKsize, sigma |-> DefaultSigma,
     direction |-> "horizontal", angle |-> DefaultAngle]

\* FlexiBlurApp.save_custom_blur_settings: an even kernel size is made odd
save_custom_blur_settings(ksize_entry, sigma_entry, direction_entry, angle_entry) ==
    [ksize     |-> IF ksize_entry % 2 = 0 THEN ksize_entry + 1 ELSE ksize_entry,
     sigma     |-> sigma_entry,
     direction |-> direction_entry,
     angle     |-> angle_entry]

---------------------------------------------------------------------------
(* Inputs                                                                  *)

Pixel(v) == <<v % 256, (v + 90) % 256, (255 - v) % 256>>

\* a gradient and a frame with one bright column
GradientFrame ==
    [r \in 1..FrameH |-> [c \in 1..FrameW |-> Pixel(40 * ((r - 1) * FrameW + c - 1))]]
StripeFrame ==
    [r \in 1..FrameH |-> [c \in 1..FrameW |-> IF c = 2 THEN Pixel(250) ELSE Pixel(10 * r)]]

Frames == {GradientFrame, StripeFrame}

\* every region around a FrameH x FrameW frame: inside, touching the edges,
\* one past them, empty, and with a negative origin
Regions ==
    {None} \cup
    {<<x, y, w, h>> : x \in -1..FrameW, y \in -1..FrameH,
                      w \in 0..(FrameW + 1), h \in 0..(FrameH + 1)}

Directions == {"horizontal", "vertical", "diagonal"}

ModeInputs == BlurModes \cup {"Gaussian"}

\* the settings drawn for a mode: the options the mode reads range over
\* their bounded sets, the others keep the GUI's defaults
SettingsFor(mode) ==
    CASE mode = "Custom" ->
            {[DefaultSettings EXCEPT !.ksize = k, !.sigma = s] :
                k \in 0..MaxKsize, s \in 0..MaxSigma}
      [] mode = "Motion" ->
            {[DefaultSettings EXCEPT !.direction = d] : d \in Directions}
      [] mode = "Radial" ->
            {[DefaultSettings EXCEPT !.angle = a] : a \in 0..MaxAngle}
      [] OTHER -> {DefaultSettings}

---------------------------------------------------------------------------
(* BlurSpec: one call of apply_blur                                        *)

BatchIdle ==
    /\ media_paths = <<>>
    /\ start_time = 0
    /\ end_time = None
    /\ max_workers = 1
    /\ fs = <<>>
    /\ futures = <<>>
    /\ work_queue = <<>>
    /\ finished_futures = <<>>
    /\ finished = {}
    /\ yielded = <<>>
    /\ completed = <<>>
    /\ output_paths = <<>>
    /\ main_pc = "idle"
    /\ output_names = <<>>

BlurInit ==
    /\ image \in Frames
    /\ image_in = image
    /\ roi \in Regions
    /\ blur_mode \in ModeInputs
    /\ custom_settings \in SettingsFor(blur_mode)
    /\ result = None
    /\ call_pc = "ready"
    /\ BatchIdle

\* the user saves the settings dialog before the call
SaveCustomBlurSettings ==
    /\ call_pc = "ready"
    /\ \E k \in 0..MaxKsize, s \in 0..MaxSigma :
          custom_settings' =
              save_custom_blur_settings(k, s, custom_settings.direction,
                                        custom_settings.angle)
    /\ UNCHANGED <<roi, blur_mode, image, image_in, result, call_pc>>
    /\ UNCHANGED batchVars

CallApplyBlur ==
    /\ call_pc = "ready"
    /\ LET r == apply_blur(image, roi, blur_mode, custom_settings)
       IN  /\ result' = r.ret
           /\ image' = r.buf
    /\ call_pc' = "returned"
    /\ UNCHANGED <<roi, blur_mode, custom_settings, image_in>>
    /\ UNCHANGED batchVars

BlurNext == SaveCustomBlurSettings \/ CallApplyBlur

BlurSpec == BlurInit /\ [][BlurNext]_vars

---------------------------------------------------------------------------
(* Paths: strings as sequences of characters                               *)

LowerChar(ch) ==
    CASE ch = "J" -> "j" [] ch = "P" -> "p" [] ch = "G" -> "g"
      [] ch = "N" -> "n" [] ch = "E" -> "e"
      [] OTHER -> ch

\* str.lower()
Lower(path) == [i \in 1..Len(path) |-> LowerChar(path[i])]

\* str.endswith(suffix)
EndsWith(path, suffix) ==
    /\ Len(path) >= Len(suffix)
    /\ SubSeq(path, Len(path) - Len(suffix) + 1, Len(path)) = suffix

ImageSuffixes ==
    {<<".", "j", "p", "g">>, <<".", "j", "p", "e", "g">>, <<".", "p", "n", "g">>}

\* line 201: path.lower().endswith((".jpg", ".jpeg", ".png"))
IsImagePath(path) == \E suffix \in ImageSuffixes : EndsWith(Lower(path), suffix)

\* os.path.basename(path): what follows the last "/"
RECURSIVE basename(_)
basename(path) ==
    IF \E i \in 1..Len(path) : path[i] = "/"
    THEN basename(Tail(path))
    ELSE path

\* config["output"]["directory"]
OutputDirectory == <<"o", "u", "t", "/">>

\* OutputPathOf for a video written over its source
OutputPathInPlace(path) == path

\* line 164: os.path.join(config["output"]["directory"], os.path.basename(path))
OutputPathOf(path) == OutputDirectory \o basename(path)

---------------------------------------------------------------------------
(* The file system and the codec boundary                                  *)

Missing == [kind |-> "missing"]
Partial == [kind |-> "partial"]
ImageFile(frame) == [kind |-> "image", frame |-> frame]
VideoFile(frames, audio) == [kind |-> "video", frames |-> frames, audio |-> audio]

ReadFile(fsys, path) == IF path \in DOMAIN fsys THEN fsys[path] ELSE Missing

WriteFile(fsys, path, content) ==
    [q \in DOMAIN fsys \cup {path} |-> IF q = path THEN content ELSE fsys[q]]

\* os.remove(path)
RemoveFile(fsys, path) == [q \in DOMAIN fsys \ {path} |-> fsys[q]]

\* cv2.imread(path): None when the file is absent or is not an image
imread(fsys, path) ==
    IF ReadFile(fsys, path).kind = "image" THEN ReadFile(fsys, path).frame ELSE None

---------------------------------------------------------------------------
(* process_image and process_video                                         *)

\* process_image(path, roi, blur_mode, custom_settings); imwrite_ok is the
\* value cv2.imwrite returns, which line 130 does not look at.
process_image(fsys, path, region, mode, settings, imwrite_ok) ==
    LET decoded == imread(fsys, path)
        processed_image == apply_blur(decoded, region, mode, settings).ret
    IN  IF processed_image = None
        THEN [ret |-> None, fs |-> fsys,
              err |-> IF decoded = None THEN "decode" ELSE "blur",
              wrote |-> {}]
        ELSE [ret |-> path,
              fs  |-> IF imwrite_ok
                      THEN WriteFile(fsys, path, ImageFile(processed_image))
                      ELSE fsys,
              err |-> "none",
              wrote |-> IF imwrite_ok THEN {path} ELSE {}]

\* process_video.blur_region(frame): the frame is copied first, line 143
blur_region(frame, region, mode, settings) ==
    apply_blur(frame, region, mode, settings).ret

\* ClipFrames for a window that masks instead of truncating
ClipFramesMasked(video, t_start, t_end) == video.frames

\* the frames of clip / clip.subclip(start_time, end_time), one per second
ClipFrames(video, t_start, t_end) ==
    IF t_start = 0 /\ t_end = Len(video.frames)
    THEN video.frames
    ELSE SubSeq(video.frames, t_start + 1, Min(t_end, Len(video.frames)))

\* the frames blur_region makes of the clip's frames
fl_image(frames, region, mode, settings) ==
    Vec([i \in 1..Len(frames) |-> blur_region(frames[i], region, mode, settings)])

\* fl_image_raises for an fl_image that computes no frame before the write
fl_image_lazy(blurred) == FALSE

\* Clip.fl_image(blur_region) builds the new clip and asks it for its first
\* frame at once to learn its size (moviepy's set_make_frame): a blur_region
\* that returns None raises there, outside the try of lines 172-181.
fl_image_raises(blurred) == blurred # <<>> /\ blurred[1] = None

\* line 177: temp_audiofile="temp-audio.m4a", a name relative to the working
\* directory and the same for every call
TempAudioFile ==
    <<"t", "e", "m", "p", "-", "a", "u", "d", "i", "o", ".", "m", "4", "a">>

\* the files write_videofile writes: the output, and the temporary audio file
\* when the clip has sound
VideoWrites(output_path, audio) ==
    IF audio THEN {output_path, TempAudioFile} ELSE {output_path}

\* process_video(path, roi, blur_mode, custom_settings, start_time, end_time);
\* encode_ok tells whether write_videofile returns or raises for a reason of
\* its own (codec, disk).  The temporary audio file is removed when the write
\* returns (remove_temp=True) and is left behind when it raises.
process_video(fsys, path, region, mode, settings, t_start, t_end_arg, encode_ok) ==
    LET clip == ReadFile(fsys, path)
    IN  IF clip.kind # "video"
        THEN [ret |-> None, fs |-> fsys, err |-> "decode", wrote |-> {}]
        ELSE
        LET t_end == IF t_end_arg = None THEN Len(clip.frames) ELSE Some(t_end_arg)
            windowed == ~(t_start = 0 /\ t_end = Len(clip.frames))
            output_path == OutputPathOf(path)
        IN  IF windowed /\ t_start > Len(clip.frames)
            THEN \* subclip raises ValueError
                 [ret |-> None, fs |-> fsys, err |-> "decode", wrote |-> {}]
            ELSE
            LET blurred == fl_image(ClipFrames(clip, t_start, t_end),
                                    region, mode, settings)
            IN  IF fl_image_raises(blurred)
                THEN [ret |-> None, fs |-> fsys, err |-> "blur", wrote |-> {}]
                ELSE IF ~encode_ok \/ \E i \in 1..Len(blurred) : blurred[i] = None
                THEN \* lines 180-183: logged, then the path is returned all the same
                     [ret |-> output_path,
                      fs  |-> IF clip.audio
                              THEN WriteFile(WriteFile(fsys, output_path, Partial),
                                             TempAudioFile, Partial)
                              ELSE WriteFile(fsys, output_path, Partial),
                      err |-> "encode",
                      wrote |-> VideoWrites(output_path, clip.audio)]
                ELSE [ret |-> output_path,
                      fs  |-> IF clip.audio
                              THEN RemoveFile(
                                       WriteFile(fsys, output_path,
                                                 VideoFile(blurred, clip.audio)),
                                       TempAudioFile)
                              ELSE WriteFile(fsys, output_path,
                                             VideoFile(blurred, clip.audio)),
                      err |-> "none",
                      wrote |-> VideoWrites(output_path, clip.audio)]

\* number of parameters of the two transformers
Arity(fn) == IF fn = "process_image" THEN 4 ELSE 6

\* handle_exceptions.wrapper: func(*args) inside try/except Exception; a call
\* with the wrong number of arguments is a TypeError like any other
handle_exceptions(fn, args, fsys, io_ok) ==
    IF Len(args) # Arity(fn)
    THEN [ret |-> None, fs |-> fsys, err |-> "TypeError", wrote |-> {}]
    ELSE IF fn = "process_image"
    THEN process_image(fsys, args[1], args[2], args[3], args[4], io_ok)
    ELSE process_video(fsys, args[1], args[2], args[3], args[4], args[5], args[6], io_ok)

\* lines 198-210: what executor.submit is given for one path
SubmittedFn(path) == IF IsImagePath(path) THEN "process_image" ELSE "process_video"

SubmittedArgs(path) ==
    <<path, roi, blur_mode, custom_settings, start_time, end_time>>

---------------------------------------------------------------------------
(* Spec: one run of process_media_in_parallel                              *)

ImgA  == <<"a", ".", "J", "p", "g">>
VidC  == <<"c", ".", "m", "p", "4">>
VidD  == <<"d", ".", "a", "v", "i">>
VidE  == <<"e", ".", "m", "p", "4">>

\* the files a batch can name, in the order they are listed in a batch
Universe == <<ImgA, VidC, VidD, VidE>>

\* a.Jpg is an image, c.mp4 and d.avi are videos with sound; e.mp4 does
\* not exist
VideoFrames(n) == [i \in 1..n |-> IF i % 2 = 1 THEN GradientFrame ELSE StripeFrame]

InitialFiles ==
    [q \in {ImgA, VidC, VidD} |->
        CASE q = ImgA -> ImageFile(StripeFrame)
          [] q = VidC -> VideoFile(VideoFrames(MaxFrames), TRUE)
          [] OTHER    -> VideoFile(VideoFrames(1), TRUE)]

\* the batches: the sub-lists of Universe of at most MaxItems paths
RECURSIVE Pick(_, _)
Pick(chosen, i) ==
    IF i > Len(Universe) THEN <<>>
    ELSE IF i \in chosen THEN <<Universe[i]>> \o Pick(chosen, i + 1)
    ELSE Pick(chosen, i + 1)

Batches ==
    {Pick(chosen, 1) : chosen \in {c \in SUBSET (1..Len(Universe)) :
                                       Cardinality(c) <= MaxItems}}

\* the value shipped in config, line 23
DefaultMaxWorkers == 4

\* the pool sizes tried: none (the pool cannot be built), one, two, the default
WorkerCounts == {0, 1, 2, DefaultMaxWorkers}

\* regions of a batch: whole frame, a region inside, a region past the right edge
BatchRegions == {None, <<0, 0, 2, 1>>, <<FrameW - 1, 0, 2, 1>>}

BatchModes == {"Custom", "Gaussian"}

BatchSettingsFor(mode) ==
    CASE mode = "Custom" ->
            {[DefaultSettings EXCEPT !.ksize = k] : k \in {MaxKsize - 1, MaxKsize}}
      [] OTHER -> {DefaultSettings}

CallIdle ==
    /\ image = None
    /\ image_in = None
    /\ result = None
    /\ call_pc = "idle"

Init ==
    /\ media_paths \in Batches
    /\ roi \in BatchRegions
    /\ blur_mode \in BatchModes
    /\ custom_settings \in BatchSettingsFor(blur_mode)
    /\ start_time = 0
    /\ end_time = None
    /\ max_workers \in WorkerCounts
    /\ fs = InitialFiles
    /\ futures = <<>>
    /\ work_queue = <<>>
    /\ finished = {}
    /\ finished_futures = <<>>
    /\ yielded = <<>>
    /\ completed = <<>>
    /\ output_paths = <<>>
    /\ main_pc = "start"
    /\ output_names = <<>>
    /\ CallIdle

\* Running for workers that never take a second item
RunningOrFinished ==
    {i \in DOMAIN futures : futures[i].state \in {"running", "finished"}}

Running == {i \in DOMAIN futures : futures[i].state = "running"}

\* ThreadPoolExecutor(max_workers=...) raises ValueError unless max_workers > 0
PoolConstructible == max_workers > 0

\* lines 194-196: the executor is built, or the call fails
ConstructPool ==
    /\ main_pc = "start"
    /\ main_pc' = IF PoolConstructible THEN "submit" ELSE "raised"
    /\ UNCHANGED <<output_names, media_paths, start_time, end_time, max_workers, fs, futures,
                   work_queue, finished, finished_futures, yielded, completed,
                   output_paths>>
    /\ UNCHANGED argVars /\ UNCHANGED callVars

\* lines 197-212: executor.submit for the next path of the list
Submit ==
    /\ main_pc = "submit"
    /\ Len(futures) < Len(media_paths)
    /\ futures' = Append(futures, [state |-> "pending", result |-> None,
                                   err |-> "none", wrote |-> {}])
    /\ work_queue' = Append(work_queue, Len(futures) + 1)
    /\ UNCHANGED <<output_names, media_paths, start_time, end_time, max_workers, fs, finished,
                   finished_futures, yielded, completed, output_paths, main_pc>>
    /\ UNCHANGED argVars /\ UNCHANGED callVars

\* WorkerAvailable for a pool that starts a thread per submitted item
WorkerAlwaysAvailable == TRUE

\* a worker thread exists or can be started for the next queued item: the
\* executor never has more than max_workers threads, one item each
WorkerAvailable == Cardinality(Running) < max_workers

\* a worker takes the oldest queued item
StartTask ==
    /\ work_queue # <<>>
    /\ WorkerAvailable
    /\ futures' = [futures EXCEPT ![Head(work_queue)].state = "running"]
    /\ work_queue' = Tail(work_queue)
    /\ UNCHANGED <<output_names, media_paths, start_time, end_time, max_workers, fs, finished,
                   finished_futures, yielded, completed, output_paths, main_pc>>
    /\ UNCHANGED argVars /\ UNCHANGED callVars

\* the worker runs the wrapped transformer to its end and sets the future's
\* result; a waiter installed by as_completed is told
FinishTask(i) ==
    /\ i \in DOMAIN futures
    /\ futures[i].state = "running"
    /\ \E io_ok \in BOOLEAN :
          LET path == media_paths[i]
              r == handle_exceptions(SubmittedFn(path), SubmittedArgs(path), fs, io_ok)
          IN  /\ futures' = [futures EXCEPT ![i] =
                                [state |-> "finished", result |-> r.ret,
                                 err |-> r.err, wrote |-> r.wrote]]
              /\ fs' = r.fs
    /\ completed' = Append(completed, i)
    /\ finished_futures' = IF main_pc = "collect"
                           THEN Append(finished_futures, i)
                           ELSE finished_futures
    /\ UNCHANGED <<output_names, media_paths, start_time, end_time, max_workers, work_queue,
                   finished, yielded, output_paths, main_pc>>
    /\ UNCHANGED argVars /\ UNCHANGED callVars

\* line 213, as_completed(futures): the futures already finished are put in a
\* set, and a waiter is installed on all of them
AsCompletedStart ==
    /\ main_pc = "submit"
    /\ Len(futures) = Len(media_paths)
    /\ finished' = {i \in DOMAIN futures : futures[i].state = "finished"}
    /\ main_pc' = "collect"
    /\ UNCHANGED <<output_names, media_paths, start_time, end_time, max_workers, fs, futures,
                   work_queue, finished_futures, yielded, completed, output_paths>>
    /\ UNCHANGED argVars /\ UNCHANGED callVars

\* lines 216-218: the body of the loop for future i
Collect(i) ==
    /\ yielded' = Append(yielded, i)
    /\ output_paths' = IF futures[i].result # None
                       THEN Append(output_paths, futures[i].result)
                       ELSE output_paths

\* as_completed first yields the set of futures it found finished, in the
\* order a Python set of Future objects happens to iterate
YieldFinishedAtStart ==
    /\ main_pc = "collect"
    /\ \E i \in finished \ Range(yielded) : Collect(i)
    /\ UNCHANGED <<output_names, media_paths, start_time, end_time, max_workers, fs, futures,
                   work_queue, finished, finished_futures, completed, main_pc>>
    /\ UNCHANGED argVars /\ UNCHANGED callVars

\* NextFinished without the reversal of the waiter's list
NextFinishedNewest(waiting) == waiting[Len(waiting)]

\* the next future the waiter hands over: the one that finished first
NextFinished(waiting) == Head(waiting)

\* then it yields the others as the waiter reports them
YieldAsCompleted ==
    /\ main_pc = "collect"
    /\ finished \subseteq Range(yielded)
    /\ finished_futures # <<>>
    /\ Collect(NextFinished(finished_futures))
    /\ finished_futures' = SelectSeq(finished_futures,
                               LAMBDA j : j # NextFinished(finished_futures))
    /\ UNCHANGED <<output_names, media_paths, start_time, end_time, max_workers, fs, futures,
                   work_queue, finished, completed, main_pc>>
    /\ UNCHANGED argVars /\ UNCHANGED callVars

\* lines 219-220: every future was yielded, the with block ends, the list is returned
Return ==
    /\ main_pc = "collect"
    /\ Len(yielded) = Len(media_paths)
    /\ main_pc' = "done"
    /\ UNCHANGED <<output_names, media_paths, start_time, end_time, max_workers, fs, futures,
                   work_queue, finished, finished_futures, yielded, completed,
                   output_paths>>
    /\ UNCHANGED argVars /\ UNCHANGED callVars

\* os.path.splitext(path)[1]: from the last "." of the base name on, leading
\* dots not counted
splitext(path) ==
    LET base == basename(path)
        dots == {i \in 2..Len(base) : base[i] = "."}
    IN  IF dots = {} THEN <<>>
        ELSE SubSeq(base, CHOOSE i \in dots : \A j \in dots : j <= i, Len(base))

\* os.path.isfile(path)
isfile(fsys, path) == ReadFile(fsys, path).kind # "missing"

\* os.path.join(output_directory, f"{output_name}{ext}")
SavedPathOf(directory, output_name, processed_path) ==
    directory \o <<"/">> \o output_name \o splitext(processed_path)

\* save_processed_images(processed_paths, output_names, output_directory):
\* zip pairs the two lists position by position and stops at the shorter one;
\* a processed path that is no file goes to Image.fromarray, which raises on a
\* string and ends the loop
RECURSIVE save_processed_images(_, _, _, _)
save_processed_images(fsys, processed_paths, names, directory) ==
    IF processed_paths = <<>> \/ names = <<>> THEN fsys
    ELSE IF ~isfile(fsys, Head(processed_paths)) THEN fsys
    ELSE save_processed_images(
             WriteFile(fsys,
                       SavedPathOf(directory, Head(names), Head(processed_paths)),
                       ReadFile(fsys, Head(processed_paths))),
             Tail(processed_paths), Tail(names), directory)

\* the directory the user picks in the dialog
SaveDirectory == <<"s", "a", "v", "e">>

\* the names the user may enter for n loaded paths: p1, p2, ... or q1, q2, ...
NameDigits == <<"1", "2", "3", "4", "5", "6", "7", "8", "9">>
NameLists(n) ==
    {[k \in 1..n |-> <<prefix, NameDigits[k]>>] : prefix \in {"p", "q"}}

\* FlexiBlurApp.save_processed_media and save_media: the batch returned a
\* non-empty list, which became processed_paths; the user enters one name per
\* loaded path, in the order the paths were loaded, and the list is saved
SaveProcessedMedia ==
    /\ main_pc = "done"
    /\ output_paths # <<>>
    /\ \E names \in NameLists(Len(media_paths)) :
          /\ output_names' = names
          /\ fs' = save_processed_images(fs, output_paths, names, SaveDirectory)
    /\ main_pc' = "saved"
    /\ UNCHANGED <<media_paths, start_time, end_time, max_workers, futures,
                   work_queue, finished, finished_futures, yielded, completed,
                   output_paths>>
    /\ UNCHANGED argVars /\ UNCHANGED callVars

Next ==
    \/ ConstructPool
    \/ Submit
    \/ StartTask
    \/ \E i \in DOMAIN futures : FinishTask(i)
    \/ AsCompletedStart
    \/ YieldFinishedAtStart
    \/ YieldAsCompleted
    \/ Return
    \/ SaveProcessedMedia

Spec == Init /\ [][Next]_vars

\* The same run under the scheduling the code relies on: the submitting
\* thread goes on (pool construction, submission, the as_completed loop and
\* the return), an idle or startable worker takes the next queued item, and
\* every task that was started ends.  The save step is the user's to take
\* or not.  The region is held to the one past the right edge, for which
\* apply_blur hands the frame back at once: which pixels a task computes has
\* no part in whether the batch ends.
LiveRegion == <<FrameW - 1, 0, 2, 1>>

LiveInit == Init /\ roi = LiveRegion

Fairness ==
    /\ WF_vars(ConstructPool)
    /\ WF_vars(Submit)
    /\ WF_vars(StartTask)
    /\ \A i \in 1..Len(Universe) : WF_vars(FinishTask(i))
    /\ WF_vars(AsCompletedStart)
    /\ WF_vars(YieldFinishedAtStart)
    /\ WF_vars(YieldAsCompleted)
    /\ WF_vars(Return)

LiveSpec == LiveInit /\ [][Next]_vars /\ Fairness

---------------------------------------------------------------------------
(* TransformSpec: process_image or process_video called on one path, and   *)
(* called again with the same arguments                                    *)

\* the files of a direct call: the image, c.mp4 with sound, and d.avi, silent
\* and one frame longer
TransformFiles ==
    [q \in {ImgA, VidC, VidD} |->
        CASE q = ImgA -> ImageFile(StripeFrame)
          [] q = VidC -> VideoFile(VideoFrames(MaxFrames), TRUE)
          [] OTHER    -> VideoFile(VideoFrames(MaxFrames + 1), FALSE)]

\* the window bounds drawn: from 0 to the end of the longest video; the end
\* may also be left unset
StartTimes == 0..(MaxFrames + 1)
EndTimes   == {None} \cup {Optional(t) : t \in 0..(MaxFrames + 1)}

TransformInit ==
    /\ media_paths \in {<<Universe[k]>> : k \in DOMAIN Universe}
    /\ roi \in BatchRegions
    /\ blur_mode \in BatchModes
    /\ custom_settings \in BatchSettingsFor(blur_mode)
    /\ start_time \in StartTimes
    /\ end_time \in EndTimes
    /\ fs = TransformFiles
    /\ result = None
    /\ call_pc = "ready"
    /\ image = None
    /\ image_in = None
    /\ max_workers = 1
    /\ futures = <<>>
    /\ work_queue = <<>>
    /\ finished = {}
    /\ finished_futures = <<>>
    /\ yielded = <<>>
    /\ completed = <<>>
    /\ output_paths = <<>>
    /\ main_pc = "idle"
    /\ output_names = <<>>

\* the call returns, for the first or for the second time
CallReturns ==
    /\ call_pc \in {"ready", "returned"}
    /\ call_pc' = IF call_pc = "ready" THEN "returned" ELSE "returned_again"

\* process_image(path, roi, blur_mode, custom_settings)
CallProcessImage ==
    /\ IsImagePath(media_paths[1])
    /\ CallReturns
    /\ \E imwrite_ok \in BOOLEAN :
          LET r == handle_exceptions("process_image",
                       <<media_paths[1], roi, blur_mode, custom_settings>>,
                       fs, imwrite_ok)
          IN  /\ result' = r.ret
              /\ fs' = r.fs
    /\ UNCHANGED <<output_names, media_paths, start_time, end_time, max_workers,
                   futures, work_queue, finished, finished_futures, yielded,
                   completed, output_paths, main_pc, image, image_in>>
    /\ UNCHANGED argVars

\* process_video(path, roi, blur_mode, custom_settings, start_time, end_time)
CallProcessVideo ==
    /\ ~IsImagePath(media_paths[1])
    /\ CallReturns
    /\ \E encode_ok \in BOOLEAN :
          LET r == handle_exceptions("process_video",
                       <<media_paths[1], roi, blur_mode, custom_settings,
                         start_time, end_time>>,
                       fs, encode_ok)
          IN  /\ result' = r.ret
              /\ fs' = r.fs
    /\ UNCHANGED <<output_names, media_paths, start_time, end_time, max_workers,
                   futures, work_queue, finished, finished_futures, yielded,
                   completed, output_paths, main_pc, image, image_in>>
    /\ UNCHANGED argVars

TransformNext == CallProcessImage \/ CallProcessVideo

TransformSpec == TransformInit /\ [][TransformNext]_vars

---------------------------------------------------------------------------
(* Properties of process_media_in_parallel, checked under Spec             *)

Finished(i) == i \in DOMAIN futures /\ futures[i].state = "finished"

\* position of v in a sequence without repetitions
IndexOf(seq, v) == CHOOSE k \in DOMAIN seq : seq[k] = v

\* the items whose task logged a failure
FailedItems == {i \in DOMAIN futures : futures[i].err # "none"}

\* C1: a batch of N paths of which M fail (decode, blur, encode or any other
\* error of the item's transformer) returns exactly N - M output paths, and
\* the call raises only when the worker pool cannot be built.
C1_ReturnsNMinusM ==
    /\ main_pc = "done" =>
          Len(output_paths) = Len(media_paths) - Cardinality(FailedItems)
    /\ main_pc = "raised" => max_workers <= 0

\* the frame an image item holds before the batch, and what blurring it gives
DecodedImage(path) == imread(InitialFiles, path)
BlurredImage(path) ==
    apply_blur(DecodedImage(path), roi, blur_mode, custom_settings).ret

\* C2: every item whose path ends in .jpg, .jpeg or .png in any case, that
\* decodes and is blurred with a supported mode, is written back to its own
\* path, and that path is in the returned list.
C2_ImagesWrittenBackAndReturned ==
    main_pc = "done" =>
        \A i \in DOMAIN media_paths :
            (/\ IsImagePath(media_paths[i])
             /\ DecodedImage(media_paths[i]) # None
             /\ BlurredImage(media_paths[i]) # None)
            => /\ media_paths[i] \in Range(output_paths)
               /\ ReadFile(fs, media_paths[i]) = ImageFile(BlurredImage(media_paths[i]))

\* C3: at most max_workers items are being processed at any moment.
C3_AtMostMaxWorkersRunning == Cardinality(Running) <= max_workers

\* C3 witness: a pool of two is full while a third item waits for a worker.
C3_Witness ==
    /\ max_workers = 2
    /\ Cardinality(Running) = 2
    /\ work_queue # <<>>

Succeeded(i) == Finished(i) /\ futures[i].result # None

\* the successful items that were yielded, two by two
YieldedPairs ==
    {pq \in (DOMAIN yielded) \X (DOMAIN yielded) :
        /\ pq[1] # pq[2]
        /\ Succeeded(yielded[pq[1]])
        /\ Succeeded(yielded[pq[2]])}

CompletedBefore(a, b) == IndexOf(completed, a) < IndexOf(completed, b)

PathBefore(a, b) ==
    /\ futures[a].result \in Range(output_paths)
    /\ futures[b].result \in Range(output_paths)
    /\ IndexOf(output_paths, futures[a].result) < IndexOf(output_paths, futures[b].result)

C5_EncodeFailureYieldsNone ==
    \A i \in DOMAIN futures :
        futures[i].err = "encode" =>
            /\ futures[i].result = None
            /\ OutputPathOf(media_paths[i]) \notin Range(output_paths)

\* the first frame the item's transformer hands to apply_blur
FirstFrame(path) ==
    IF IsImagePath(path)
    THEN DecodedImage(path)
    ELSE IF ReadFile(InitialFiles, path).kind = "video"
    THEN ReadFile(InitialFiles, path).frames[1]
    ELSE None

\* the blur fails on the item: its frame decodes and apply_blur returns None
BlurFailure(path) ==
    /\ FirstFrame(path) # None
    /\ apply_blur(FirstFrame(path), roi, blur_mode, custom_settings).ret = None

\* where the item's transformer writes
TargetOf(path) == IF IsImagePath(path) THEN path ELSE OutputPathOf(path)

\* what C6 asks of item i: no result, nothing written, not in the returned list
ItemAborted(i) ==
    /\ futures[i].result = None
    /\ ReadFile(fs, TargetOf(media_paths[i]))
           = ReadFile(InitialFiles, TargetOf(media_paths[i]))
    /\ TargetOf(media_paths[i]) \notin Range(output_paths)

\* C6: a BlurFailure (unknown mode, or the filter raising) on an item, image
\* or video, aborts the item's transform: when the batch returns, the item's
\* task has yielded no result, has written nothing, and the item is not in the
\* returned list.  For an image the same holds of process_image called on its
\* own, as checked before the batch starts.
\* (BlurFailure => ItemAborted, written with the cheaper side first.)
C6_BlurFailureExcludesItem ==
    /\ main_pc = "done" =>
          \A i \in DOMAIN media_paths :
              ItemAborted(i) \/ ~BlurFailure(media_paths[i])
    /\ main_pc = "start" =>
          \A i \in DOMAIN media_paths :
              (IsImagePath(media_paths[i]) /\ BlurFailure(media_paths[i])) =>
                  \A io_ok \in BOOLEAN :
                      LET r == process_image(fs, media_paths[i], roi, blur_mode,
                                             custom_settings, io_ok)
                      IN  r.ret = None /\ r.fs = fs

\* C6 witness: a batch is done in which the blur failed on a video.
C6_Witness ==
    /\ main_pc = "done"
    /\ \E i \in DOMAIN media_paths :
          /\ ~IsImagePath(media_paths[i])
          /\ BlurFailure(media_paths[i])
          /\ futures[i].err = "blur"

\* the file the save step should have made for item k: the k-th name, with the
\* extension of the item's artifact, in the directory the user picked
SavedArtifactOf(k) ==
    ReadFile(fs, SavedPathOf(SaveDirectory, output_names[k], futures[k].result))

\* C11: after the save step, for every index k whose item succeeded, the file
\* saved under the k-th name the user entered is a copy of the artifact of the
\* k-th input item, whatever the order in which the items completed and
\* whichever items failed.
C11_SavedInInputOrder ==
    main_pc = "saved" =>
        \A k \in DOMAIN media_paths :
            Succeeded(k) => SavedArtifactOf(k) = ReadFile(fs, futures[k].result)

\* C13: in every interleaving, the files a task writes (its output file and
\* any temporary file it creates) are written by no other task of the batch.
C13_TasksWriteDisjointFiles ==
    \A i \in DOMAIN futures : \A j \in DOMAIN futures :
        i # j => futures[i].wrote \cap futures[j].wrote = {}

\* a step in which item i is taken by a worker
Starts(i) == futures[i].state = "pending" /\ futures'[i].state = "running"

\* what one step may do to the items: an item is taken only while a worker is
\* free, and a task that has finished is not run again
ExecutedOnce ==
    \A i \in DOMAIN futures :
        /\ Starts(i) => Cardinality(Running) < max_workers
        /\ futures[i].state = "running" => futures'[i].state # "pending"
        /\ futures[i].state = "finished" => futures'[i] = futures[i]

\* process_media_in_parallel has returned its list
BatchReturned == main_pc \in {"done", "saved"}

\* every one of the N tasks has finished, each once
AllTasksFinished ==
    /\ Len(futures) = Len(media_paths)
    /\ \A i \in DOMAIN media_paths : Finished(i)
    /\ Len(completed) = Len(media_paths)
    /\ Range(completed) = DOMAIN media_paths

\* C15: when every task terminates and the pool can be built, a batch of any
\* size N (N > max_workers and N = 0 included) eventually returns; an item
\* beyond the pool's capacity waits for a free worker, every submitted item is
\* executed exactly once, and the call returns only after all N tasks have
\* finished.
C15_BatchEventuallyCompletes ==
    /\ PoolConstructible => <>BatchReturned
    /\ [][ExecutedOnce]_vars
    /\ [](BatchReturned => AllTasksFinished)

\* C15 witness: a batch longer than the pool is wide has returned, an item
\* having waited in the queue while every worker was busy.
C15_Witness ==
    /\ main_pc = "done"
    /\ PoolConstructible
    /\ Len(media_paths) > max_workers
    /\ AllTasksFinished

---------------------------------------------------------------------------
(* Properties of apply_blur, checked under BlurSpec                        *)

Returned == call_pc = "returned"

\* the bounds a region must keep, as the data model states them
InsideFrame(region, frame) ==
    /\ region[1] >= 0
    /\ region[2] >= 0
    /\ region[3] > 0
    /\ region[4] > 0
    /\ region[1] + region[3] <= Width(frame)
    /\ region[2] + region[4] <= Height(frame)

\* C7 as stated: with a mode outside the five, whatever the region (absent,
\* valid or invalid), apply_blur returns no frame and leaves the frame as it was.
C7_UnknownModeFails ==
    (Returned /\ blur_mode \notin BlurModes) =>
        /\ result = None
        /\ image = image_in

\* C7 amended: with a mode outside the five, apply_blur leaves the frame as it
\* was; it returns no frame when the region is absent or valid, and returns
\* the unmodified frame, signalling no failure, when the region is invalid.
C7_UnknownModeFailsUnlessRegionInvalid ==
    (Returned /\ blur_mode \notin BlurModes) =>
        /\ image = image_in
        /\ IF roi # None /\ ~InsideFrame(roi, image_in)
           THEN result = image_in
           ELSE result = None

\* C7 witness: an unknown mode with a valid region returned no frame.
C7_Witness ==
    /\ Returned
    /\ blur_mode \notin BlurModes
    /\ roi # None
    /\ InsideFrame(roi, image_in)
    /\ result = None

\* C8: a region is accepted exactly when it lies inside the frame, the right
\* and bottom edges included, and is then used unchanged: the pixels outside
\* it are kept and those inside are the blur of exactly that section (or the
\* call fails for the mode's sake); a region that breaks a bound gets the
\* original frame back, no pixel modified and no failure.
C8_RegionAcceptedIffInside ==
    (Returned /\ roi # None) =>
        IF InsideFrame(roi, image_in)
        THEN LET section == Crop(image_in, roi[1], roi[2], roi[3], roi[4])
                 blurred == blurred_roi(section, blur_mode, custom_settings)
             IN  IF blurred = None
                 THEN result = None
                 ELSE /\ result # None
                      /\ \A r \in 1..Height(image_in), c \in 1..Width(image_in) :
                            result[r][c] =
                                IF /\ r > roi[2] /\ r <= roi[2] + roi[4]
                                   /\ c > roi[1] /\ c <= roi[1] + roi[3]
                                THEN blurred[r - roi[2]][c - roi[1]]
                                ELSE image_in[r][c]
        ELSE /\ result = image_in
             /\ image = image_in

\* C8 witness: a region touching the right and the bottom edge was accepted
\* and blurred.
C8_Witness ==
    /\ Returned
    /\ roi # None
    /\ InsideFrame(roi, image_in)
    /\ roi[1] + roi[3] = Width(image_in)
    /\ roi[2] + roi[4] = Height(image_in)
    /\ result # None
    /\ result # image_in

\* C9: apply_blur never changes the buffer its caller passed in: after the
\* call it holds the pixels it held before.
C9_CallerBufferUnchanged == Returned => image = image_in

\* C10: in Custom mode a call with an even ksize returns what the same call
\* with ksize + 1 returns.
C10_EvenKsizeAsNextOdd ==
    (Returned /\ blur_mode = "Custom" /\ custom_settings.ksize % 2 = 0) =>
        result = apply_blur(image_in, roi, blur_mode,
                            [custom_settings EXCEPT !.ksize = @ + 1]).ret

---------------------------------------------------------------------------
(* Properties of process_image and process_video, checked under            *)
(* TransformSpec                                                           *)

\* the path the transformer is called on, what it held before the first call,
\* and the file the transformer writes
CallPath   == media_paths[1]
CallSource == ReadFile(TransformFiles, CallPath)
CallTarget == TargetOf(CallPath)

\* the transformer called with the arguments of the state on file system fsys,
\* its write succeeding
CallOn(fsys) ==
    IF IsImagePath(CallPath)
    THEN handle_exceptions("process_image",
             <<CallPath, roi, blur_mode, custom_settings>>, fsys, TRUE)
    ELSE handle_exceptions("process_video",
             <<CallPath, roi, blur_mode, custom_settings, start_time, end_time>>,
             fsys, TRUE)

\* the file system after one call, and after two
OnceFiles  == CallOn(TransformFiles).fs
TwiceFiles == CallOn(OnceFiles).fs

\* the step of the second call
SecondCall == call_pc = "returned" /\ call_pc' = "returned_again"

\* both calls went through: the first left what one call leaves, the second
\* did not end in a failed write
BothCallsWent ==
    /\ SecondCall
    /\ fs = OnceFiles
    /\ ReadFile(fs', CallTarget).kind # "partial"

\* no file but the output file differs from what it was before the calls
OnlyTargetWritten(fsys) ==
    \A q \in (DOMAIN fsys \cup DOMAIN TransformFiles) \ {CallTarget} :
        ReadFile(fsys, q) = ReadFile(TransformFiles, q)

WindowEnd == IF end_time = None THEN Len(CallSource.frames) ELSE Some(end_time)

\* 0 <= start_time < end_time <= D on a video of duration D
WindowInside ==
    /\ CallSource.kind = "video"
    /\ 0 <= start_time
    /\ start_time < WindowEnd
    /\ WindowEnd <= Len(CallSource.frames)

\* C14: for a video of duration D and a window 0 <= start_time < end_time <= D
\* (end_time standing for D when unset), the output process_video writes
\* holds exactly the frames with timestamps in [start_time, end_time), each
\* the blur of the source frame with the region, mode and settings of the
\* call; frames outside the window are dropped, and with the window [0, D)
\* every frame of the source is output.
C14_WindowFramesBlurred ==
    (/\ call_pc # "ready"
     /\ WindowInside
     /\ ReadFile(fs, CallTarget).kind = "video")
    => LET out == ReadFile(fs, CallTarget).frames
       IN  /\ result = CallTarget
           /\ Len(out) = WindowEnd - start_time
           /\ \A k \in 1..Len(out) :
                 out[k] = apply_blur(CallSource.frames[start_time + k], roi,
                                     blur_mode, custom_settings).ret

\* C14 witness: a window strictly inside the video was processed: frames
\* before it and after it were dropped, and what was output is blurred.
C14_Witness ==
    /\ call_pc = "returned"
    /\ WindowInside
    /\ start_time > 0
    /\ WindowEnd < Len(CallSource.frames)
    /\ ReadFile(fs, CallTarget).kind = "video"
    /\ ReadFile(fs, CallTarget).frames # <<>>
    /\ ReadFile(fs, CallTarget).frames[1] # CallSource.frames[start_time + 1]

====
